---- MODULE Spec2Model ----
(***************************************************************************)
(* A model of the OneBusAway Home Assistant integration:                   *)
(*   - sensor.py: OneBusAwaySensorCoordinator (poll cycle, arrival         *)
(*     extraction, sensor reconciliation, polling tier machine, timer),    *)
(*   - api.py: OneBusAwayApiClient._api_wrapper (retry loop and error      *)
(*     translation),                                                       *)
(*   - sensor.py: OneBusAwaySituationSensor.extra_state_attributes (the    *)
(*     markdown rendering) and async_setup_entry (one coordinator per      *)
(*     stop),                                                              *)
(*   - config_flow.py: the error mapping of async_step_user and the        *)
(*     route selection of async_step_routes.                               *)
(*                                                                         *)
(* Times.  The payload carries arrival times in milliseconds.  The code    *)
(* divides them by 1000 into float seconds; the model keeps every such     *)
(* float as its exact number of thousandths, so a record's "time" t stands *)
(* for t/1000 seconds, and the wall clock `now` (whole seconds) is         *)
(* compared with it as now * 1000.                                         *)
(***************************************************************************)
EXTENDS Integers, Sequences, FiniteSets, TLC

VARIABLES
    \* ---- one stop's coordinator (sensor.py) ----
    pc,               \* "created" | "running" | "crashed"
    now,              \* the clock, in seconds
    data,             \* self.data
    sensors,          \* self.sensors
    current_interval, \* self._current_interval (None while the attribute is unset)
    repeat_count,     \* self._repeat_count     (None while the attribute is unset)
    unsub,            \* self._unsub: None, or the id of the timer it cancels
    timers,           \* the live interval timers registered with the event loop
    inflight,         \* start times of the poll cycles awaiting their fetch
    selected_routes,  \* hass.data[DOMAIN][entry_id]["selected_routes"]
    event,            \* what the last step did, and what its schedule_updates
                      \* call read: the values of the log line at 222-228
    \* ---- the arrival extractor applied to drawn inputs ----
    x_in,             \* the drawn input
    x_out,            \* the result of compute_arrivals on it
    x_pc,
    \* ---- one call of the gateway (api.py) ----
    a_pc,             \* "idle" | "request" | "sleep" | "returned" | "raised"
    attempt,          \* the loop variable of _api_wrapper
    a_elapsed,        \* seconds spent inside the current async_timeout block
    a_waits,          \* the waits slept so far, in order
    a_requests,       \* number of HTTP requests sent
    a_status,         \* the HTTP status the last request was answered with
                      \* (None when it got no answer)
    a_result,         \* the payload returned or the error class raised
    flow_error,       \* _errors["base"] of async_step_user
    \* ---- the situation rendering applied to drawn inputs ----
    r_in,             \* the drawn self.situations
    r_out,            \* markdown_lines and the attributes returned
    r_pc,
    \* ---- async_setup_entry over the stops of one entry ----
    s_pc,             \* "idle" | "loop" | "refresh" | "done" | "raised"
    s_index,          \* the position in `stops` the loop is at, from 1
    coordinators,     \* per stop: its coordinator, as far as setup and the
                      \* poll cycles go
    \* ---- the tier machine of schedule_updates called on drawn arrivals ----
    m_interval,       \* self._current_interval (None while unset)
    m_repeat,         \* self._repeat_count     (None while unset)
    m_arrivals,       \* what compute_arrivals returned in the last call
    m_target,         \* the target tier index of the last call (None before it)
    m_slow,           \* how many calls in a row, up to the last, had target 4
    m_start           \* the tier index and repeat count that row started from

cvars == <<pc, now, data, sensors, current_interval, repeat_count, unsub,
           timers, inflight, selected_routes, event>>
xvars == <<x_in, x_out, x_pc>>
avars == <<a_pc, attempt, a_elapsed, a_waits, a_requests, a_status, a_result,
           flow_error>>
rvars == <<r_in, r_out, r_pc>>
svars == <<s_pc, s_index, coordinators>>
mvars == <<m_interval, m_repeat, m_arrivals, m_target, m_slow, m_start>>
vars == <<cvars, xvars, avars, rvars, svars, mvars>>

----------------------------------------------------------------------------
(* Python values *)

\* None, and an absent numeric key read with d.get(key).
None == -1000000000
\* float("inf"), in thousandths of a second.
Inf == 1000000000
\* A string key absent from a dict.
Missing == "<missing>"
\* An arrival sensor's arrival_info when it is None.
NoArrival == [none |-> TRUE]

\* Python truthiness of an optional number: None and 0 are false.
Truthy(x) == x # None /\ x # 0

Min(a, b) == IF a < b THEN a ELSE b
Max(a, b) == IF a > b THEN a ELSE b

----------------------------------------------------------------------------
(* compute_arrivals and extract_departure (sensor.py 115-160) *)

\* d.get(key, default) for the string keys
GetOr(v, default) == IF v = Missing THEN default ELSE v

\* An element of a Python list that is the str x.
Str(x) == [str |-> x]

\* `route_id not in selected_routes`: no element equals the str route_id (a
\* dict never equals a str).
NotInList(x, list) == \A i \in 1..Len(list) : list[i] # Str(x)

\* line 132: the entry is dropped for its route
route_rejected(d, routes) == routes # <<>> /\ NotInList(d.routeId, routes)

\* line 136: either time is in the future
either_in_future(d, current) ==
    \/ (Truthy(d.predictedArrivalTime) /\ d.predictedArrivalTime > current)
    \/ (Truthy(d.scheduledArrivalTime) /\ d.scheduledArrivalTime > current)

\* line 137: (predicted or scheduled) / 1000, kept in thousandths
primary_time(d) ==
    IF Truthy(d.predictedArrivalTime) THEN d.predictedArrivalTime
    ELSE d.scheduledArrivalTime

\* The same with the quotient rounded towards zero.
deviation_truncating(d) ==
    IF Truthy(d.predictedArrivalTime) /\ Truthy(d.scheduledArrivalTime)
    THEN LET ms == d.predictedArrivalTime - d.scheduledArrivalTime
         IN IF ms >= 0 THEN ms \div 1000 ELSE 0 - ((0 - ms) \div 1000)
    ELSE None

\* lines 138-141: (predicted - scheduled) // 1000 if predicted and scheduled else None
deviation(d) ==
    IF Truthy(d.predictedArrivalTime) /\ Truthy(d.scheduledArrivalTime)
    THEN (d.predictedArrivalTime - d.scheduledArrivalTime) \div 1000
    ELSE None

\* line 144
arrival_type(d, current) ==
    IF Truthy(d.predictedArrivalTime) /\ d.predictedArrivalTime > current
    THEN "Predicted" ELSE "Scheduled"

\* lines 142-148: the dict returned for an entry that is kept
departure_record(d, current) ==
    [time |-> primary_time(d),
     type |-> arrival_type(d, current),
     headsign |-> GetOr(d.tripHeadsign, "Unknown"),
     routeShortName |-> GetOr(d.routeShortName, "Unknown Route"),
     schedule_deviation |-> deviation(d)]

\* lines 123-149: <<>> stands for a None result, <<r>> for the dict r
extract_departure(d, current, routes) ==
    IF route_rejected(d, routes) THEN <<>>
    ELSE IF either_in_future(d, current) THEN <<departure_record(d, current)>>
    ELSE <<>>

\* lines 153-157: the list comprehension over arrivalsAndDepartures
RECURSIVE collect_departures(_, _, _)
collect_departures(entries, current, routes) ==
    IF entries = <<>> THEN <<>>
    ELSE extract_departure(Head(entries), current, routes)
         \o collect_departures(Tail(entries), current, routes)

\* sorted(..., key=time) is stable: r goes behind every element whose time
\* is not greater than its own.
RECURSIVE insert_sorted(_, _)
insert_sorted(r, s) ==
    IF s = <<>> THEN <<r>>
    ELSE IF r.time < Head(s).time THEN <<r>> \o s
    ELSE <<Head(s)>> \o insert_sorted(r, Tail(s))

\* The departures left in the order of the payload.
left_in_payload_order(s) == s

\* line 160: sorted(departures, key=lambda x: x["time"])
RECURSIVE sorted_by_time(_)
sorted_by_time(s) ==
    IF s = <<>> THEN <<>>
    ELSE LET front == SubSeq(s, 1, Len(s) - 1)
         IN insert_sorted(s[Len(s)], sorted_by_time(front))

\* The payloads self.data can hold.
UnsetData == [tag |-> "unset", arrivalsAndDepartures |-> <<>>, situations |-> <<>>]
NoneData  == [tag |-> "None",  arrivalsAndDepartures |-> <<>>, situations |-> <<>>]
DictData(entries, sits) ==
    [tag |-> "dict", arrivalsAndDepartures |-> entries, situations |-> sits]

\* line 117: reading self.data raises AttributeError while it was never assigned
data_unset(d) == d.tag = "unset"

\* lines 115-160, for data that is set; `after` in seconds
compute_arrivals(d, after, routes) ==
    IF d.tag = "None" THEN <<>>
    ELSE sorted_by_time(collect_departures(d.arrivalsAndDepartures, after * 1000, routes))

----------------------------------------------------------------------------
(* The polling tier machine (sensor.py 171-232) *)

polling_tiers == <<30, 60, 90, 180, 300>>
\* A tier repeated three times before the first step up.
repeat_limits_longer == <<3, 1, 0, 0, 0>>
repeat_limits == <<2, 1, 0, 0, 0>>
max_interval == 300
NumTiers == Len(polling_tiers)

\* line 179: arrivals[0]["time"] - time() if arrivals else float("inf");
\* in thousandths of a second
seconds_until_arrival(arrivals, t) ==
    IF arrivals # <<>> THEN arrivals[1].time - t * 1000 ELSE Inf

\* The thresholds excluded from the tier below them.
target_index_strict(s) ==
    IF s < 3 * 60 * 1000 THEN 0
    ELSE IF s < 6 * 60 * 1000 THEN 1
    ELSE IF s < 10 * 60 * 1000 THEN 2
    ELSE IF s < 15 * 60 * 1000 THEN 3
    ELSE 4

\* lines 190-199
target_index(s) ==
    IF s <= 3 * 60 * 1000 THEN 0
    ELSE IF s <= 6 * 60 * 1000 THEN 1
    ELSE IF s <= 10 * 60 * 1000 THEN 2
    ELSE IF s <= 15 * 60 * 1000 THEN 3
    ELSE 4

\* _current_interval starting from the fastest tier
get_current_interval_fastest(ci) == IF ci = None THEN polling_tiers[1] ELSE ci

\* line 185: getattr(self, "_current_interval", max_interval)
get_current_interval(ci) == IF ci = None THEN max_interval ELSE ci

\* line 187: getattr(self, "_repeat_count", 0)
get_repeat_count(rc) == IF rc = None THEN 0 ELSE rc

\* line 186: polling_tiers.index(current_interval) if it is a tier, else the last
\* index; 0-based as in the code
tier_index_of(interval) ==
    IF \E i \in 1..NumTiers : polling_tiers[i] = interval
    THEN (CHOOSE i \in 1..NumTiers :
              /\ polling_tiers[i] = interval
              /\ \A j \in 1..(i - 1) : polling_tiers[j] # interval) - 1
    ELSE NumTiers - 1

\* step_tier with the acceleration branch going straight to the target tier
step_tier_jumping_down(interval, repeat, target) ==
    LET tier_index == tier_index_of(interval)
    IN IF target > tier_index
       THEN IF repeat < repeat_limits[tier_index + 1]
            THEN [interval |-> interval, repeat |-> repeat + 1]
            ELSE [interval |-> polling_tiers[Min(tier_index + 1, NumTiers - 1) + 1],
                  repeat |-> 0]
       ELSE IF target < tier_index
       THEN [interval |-> polling_tiers[target + 1], repeat |-> 0]
       ELSE [interval |-> interval, repeat |-> repeat]

\* step_tier with the backoff branch going straight to the target tier
step_tier_jumping(interval, repeat, target) ==
    LET tier_index == tier_index_of(interval)
    IN IF target > tier_index
       THEN IF repeat < repeat_limits[tier_index + 1]
            THEN [interval |-> interval, repeat |-> repeat + 1]
            ELSE [interval |-> polling_tiers[target + 1], repeat |-> 0]
       ELSE IF target < tier_index
       THEN [interval |-> polling_tiers[Max(tier_index - 1, 0) + 1], repeat |-> 0]
       ELSE [interval |-> interval, repeat |-> repeat]

\* step_tier repeating a tier once more than its limit
step_tier_repeating_once_more(interval, repeat, target) ==
    LET tier_index == tier_index_of(interval)
    IN IF target > tier_index
       THEN IF repeat <= repeat_limits[tier_index + 1]
            THEN [interval |-> interval, repeat |-> repeat + 1]
            ELSE [interval |-> polling_tiers[Min(tier_index + 1, NumTiers - 1) + 1],
                  repeat |-> 0]
       ELSE IF target < tier_index
       THEN [interval |-> polling_tiers[Max(tier_index - 1, 0) + 1], repeat |-> 0]
       ELSE [interval |-> interval, repeat |-> repeat]

\* step_tier with the repeat count reset when the tier is already the target
step_tier_resetting(interval, repeat, target) ==
    LET tier_index == tier_index_of(interval)
    IN IF target > tier_index
       THEN IF repeat < repeat_limits[tier_index + 1]
            THEN [interval |-> interval, repeat |-> repeat + 1]
            ELSE [interval |-> polling_tiers[Min(tier_index + 1, NumTiers - 1) + 1],
                  repeat |-> 0]
       ELSE IF target < tier_index
       THEN [interval |-> polling_tiers[Max(tier_index - 1, 0) + 1], repeat |-> 0]
       ELSE [interval |-> interval, repeat |-> 0]

\* lines 202-216: the interval and repeat count one call leaves behind
step_tier(interval, repeat, target) ==
    LET tier_index == tier_index_of(interval)
    IN IF target > tier_index
       THEN IF repeat < repeat_limits[tier_index + 1]
            THEN [interval |-> interval, repeat |-> repeat + 1]
            ELSE [interval |-> polling_tiers[Min(tier_index + 1, NumTiers - 1) + 1],
                  repeat |-> 0]
       ELSE IF target < tier_index
       THEN [interval |-> polling_tiers[Max(tier_index - 1, 0) + 1], repeat |-> 0]
       ELSE [interval |-> interval, repeat |-> repeat]

----------------------------------------------------------------------------
(* The sensors (sensor.py 236-264, 339-359, 422-442) *)

\* OneBusAwayRefreshSensor
RefreshSensor(next_refresh) == [kind |-> "refresh", next_refresh |-> next_refresh]
\* OneBusAwaySituationSensor
SituationSensor(situations) == [kind |-> "situation", situations |-> situations]
\* OneBusAwayArrivalSensor; unique id "<stop>_arrival_<index>"
ArrivalSensor(arrival_info, index) ==
    [kind |-> "arrival", index |-> index, arrival_info |-> arrival_info]

is_arrival(s) == s.kind = "arrival"
is_situation(s) == s.kind = "situation"

\* line 96: [s for s in self.sensors if isinstance(s, OneBusAwayArrivalSensor)]
existing_arrival_sensors(ss) == SelectSeq(ss, is_arrival)

\* the position of ss[p] within existing_arrival_sensors, 0-based
arrival_rank(ss, p) == Cardinality({q \in 1..(p - 1) : is_arrival(ss[q])})

\* A situation sensor appended on every poll.
reconcile_situations_appending(ss, situation_data) ==
    Append(ss, SituationSensor(situation_data))

\* lines 83-93: create the situation sensor, or update every one in place
reconcile_situations(ss, situation_data) ==
    IF ~(\E p \in 1..Len(ss) : is_situation(ss[p]))
    THEN Append(ss, SituationSensor(situation_data))
    ELSE [p \in 1..Len(ss) |->
             IF is_situation(ss[p]) THEN SituationSensor(situation_data) ELSE ss[p]]

\* update_existing without the clear_arrival loop of lines 112-113
update_existing_not_clearing(ss, new) ==
    [p \in 1..Len(ss) |->
        IF is_arrival(ss[p]) /\ arrival_rank(ss, p) < Len(new)
        THEN ArrivalSensor(new[arrival_rank(ss, p) + 1], ss[p].index)
        ELSE ss[p]]

\* lines 99-101 and 112-113: update_arrival on the first len(new) existing
\* sensors, clear_arrival on the rest; each sensor keeps its own index
update_existing(ss, new) ==
    [p \in 1..Len(ss) |->
        IF is_arrival(ss[p])
        THEN IF arrival_rank(ss, p) < Len(new)
             THEN ArrivalSensor(new[arrival_rank(ss, p) + 1], ss[p].index)
             ELSE ArrivalSensor(NoArrival, ss[p].index)
        ELSE ss[p]]

\* created_sensors numbering the new sensors from 1 instead of from 0
RECURSIVE created_sensors_off_by_one(_, _)
created_sensors_off_by_one(new, from) ==
    IF from >= Len(new) THEN <<>>
    ELSE <<ArrivalSensor(new[from + 1], from + 1)>>
         \o created_sensors_off_by_one(new, from + 1)

\* lines 102-109: a new sensor for every index from `from` on
RECURSIVE created_sensors(_, _)
created_sensors(new, from) ==
    IF from >= Len(new) THEN <<>>
    ELSE <<ArrivalSensor(new[from + 1], from)>> \o created_sensors(new, from + 1)

\* lines 95-113
reconcile_arrivals(ss, new) ==
    update_existing(ss, new)
        \o created_sensors(new, Len(existing_arrival_sensors(ss)))

\* lines 75-113: async_update after a successful fetch
reconcile(ss, d, t, routes) ==
    LET new_arrival_times == compute_arrivals(d, t, routes)
        \* lines 79-81
        situation_data == IF d.tag = "dict" THEN d.situations ELSE <<>>
    IN reconcile_arrivals(reconcile_situations(ss, situation_data), new_arrival_times)

\* The failed cycle going on into the reconciliation with the data it has.
reconcile_on_stale_data(ss, d, t, routes) == reconcile(ss, d, t, routes)

\* lines 70-73: async_update after a fetch that raised: it logs and returns
async_update_failed(ss, d, t, routes) == ss

\* line 220: self.refresh_sensor.update_refresh_time(next_update_time)
update_refresh_time(ss, next_refresh) ==
    [p \in 1..Len(ss) |->
        IF ss[p].kind = "refresh" THEN RefreshSensor(next_refresh) ELSE ss[p]]

----------------------------------------------------------------------------
(* The gateway's timing, as far as the coordinator sees it (api.py 61-66) *)

max_retries == 4
backoff_factor == 3
\* async_timeout.timeout(10) around every attempt
request_timeout == 10

\* A fetch is at most max_retries attempts, each cut off by its timeout, so
\* it ends less than max_retries * request_timeout seconds after it began.
\* The durations offered: a quick answer, and one stretched by 429 retries.
FetchDurations == {d \in {5, 35} : d < max_retries * request_timeout}
MaxFetchDuration == CHOOSE d \in FetchDurations : \A e \in FetchDurations : e <= d

----------------------------------------------------------------------------
(* The payloads the server may answer with *)

\* The clock stops here.
MaxNow == 450
\* The most arrivals in one payload.
MaxArrivals == 3

Entry(route, predicted, scheduled) ==
    [routeId |-> route, predictedArrivalTime |-> predicted,
     scheduledArrivalTime |-> scheduled,
     tripHeadsign |-> "Downtown", routeShortName |-> route]

\* The timetable of the stop: a trip without real-time data (the API sends
\* 0), a trip running late, a trip running early whose predicted time
\* passes before its scheduled time, and a trip with no predicted key.
Trips == << Entry("10", 0, 150000),
            Entry("20", 480000, 420000),
            Entry("10", 290000, 330000),
            Entry("20", None, 900000) >>

RECURSIVE pick_trips(_, _)
pick_trips(i, S) ==
    IF i > Len(Trips) THEN <<>>
    ELSE (IF i \in S THEN <<Trips[i]>> ELSE <<>>) \o pick_trips(i + 1, S)

ArrivalLists ==
    {pick_trips(1, S) : S \in {T \in SUBSET (1..Len(Trips)) : Cardinality(T) <= MaxArrivals}}

\* A situation of the payload's references.  Each of summary, url and
\* description is <<>> when the key or its "value" is missing and <<text>>
\* otherwise, a text being its sequence of characters.
Situation(summary, url, description) ==
    [summary |-> summary, url |-> url, description |-> description]
SituationLists == {<<>>, <<Situation(<<<<"S">>>>, <<>>, <<>>)>>}

Payloads ==
    {NoneData} \cup {DictData(e, s) : e \in ArrivalLists, s \in SituationLists}

\* config_flow.py 99: the label of a route in the selection form
route_option(shortName, route_id) == shortName \o " (" \o route_id \o ")"

\* config_flow.py 101-105: the list the flow stores in the entry's data for
\* the route ids the user ticked; a route's shortName is its id, as in Entry.
stored_routes(chosen) ==
    [i \in 1..Len(chosen) |->
        [id |-> chosen[i], shortName |-> route_option(chosen[i], chosen[i])]]

\* The user ticks nothing, or route 10.
RouteChoices == {stored_routes(c) : c \in {<<>>, <<"10">>}}

----------------------------------------------------------------------------
(* The coordinator's timer (sensor.py 230-232) *)

Timer(id, interval, due) == [id |-> id, interval |-> interval, due |-> due]

\* The previous timer left registered.
cancel_timer_skipped(ts, handle) == ts

\* lines 230-231: if self._unsub: self._unsub()
cancel_timer(ts, handle) == {t \in ts : t.id # handle}

fresh_id(ts) == CHOOSE i \in 0..Cardinality(ts) : \A t \in ts : t.id # i

\* line 232: async_track_time_interval(hass, update_interval, timedelta(seconds=...))
\* registers a timer that fires every `interval` seconds until it is cancelled
arm_timer(ts, interval, t) == ts \cup {Timer(fresh_id(ts), interval, t + interval)}

\* Time only moves forward: nothing that had to happen earlier is pending at t.
can_happen_at(t) ==
    /\ t >= now
    /\ t <= MaxNow
    /\ \A tm \in timers : tm.due >= t
    /\ \A f \in inflight : f + MaxFetchDuration >= t

----------------------------------------------------------------------------
(* The coordinator's operations *)

\* What a step leaves in `event`: its kind, and for a step that ran
\* schedule_updates to its end the target tier index it computed (None
\* otherwise), with the tier index, the repeat count and the number of
\* arrival sensors the step started from, and whether no call of
\* schedule_updates had set _current_interval before it.
Event(kind, target) ==
    [kind |-> kind, target |-> target,
     first |-> (current_interval = None),
     tier |-> tier_index_of(get_current_interval(current_interval)),
     repeat |-> get_repeat_count(repeat_count),
     slots |-> Len(existing_arrival_sensors(sensors))]

\* lines 171-232, reached with data d: sets the tier state, the forecast and
\* the timer, or raises out of compute_arrivals (line 178) when self.data was
\* never assigned
schedule_updates(kind, d, ss, t) ==
    IF data_unset(d)
    THEN /\ pc' = "crashed"
         /\ sensors' = ss
         /\ event' = Event(kind, None)
         /\ UNCHANGED <<current_interval, repeat_count, unsub, timers>>
    ELSE LET arrivals == compute_arrivals(d, t, selected_routes)
             target == target_index(seconds_until_arrival(arrivals, t))
             next == step_tier(get_current_interval(current_interval),
                               get_repeat_count(repeat_count), target)
             kept == cancel_timer(timers, unsub)
         IN /\ pc' = "running"
            /\ current_interval' = next.interval
            /\ repeat_count' = next.repeat
            /\ sensors' = update_refresh_time(ss, t + next.interval)
            /\ timers' = arm_timer(kept, next.interval, t)
            /\ unsub' = fresh_id(kept)
            /\ event' = Event(kind, target)

\* async_setup_entry line 34: async_refresh starts the first cycle, which
\* suspends in the fetch
AsyncRefresh ==
    /\ pc = "created"
    /\ pc' = "running"
    /\ inflight' = {now}
    /\ event' = Event("refresh", None)
    /\ UNCHANGED <<now, data, sensors, current_interval, repeat_count, unsub,
                   timers, selected_routes>>
    /\ UNCHANGED <<xvars, avars, rvars, svars, mvars>>

\* update_interval (lines 173-176): the timer fires and starts a cycle, which
\* suspends in the fetch; the interval timer stays registered
TimerFires ==
    \E tm \in timers :
        /\ pc = "running"
        /\ can_happen_at(tm.due)
        /\ now' = tm.due
        /\ timers' = (timers \ {tm}) \cup {Timer(tm.id, tm.interval, tm.due + tm.interval)}
        /\ inflight' = inflight \cup {tm.due}
        /\ event' = Event("timer", None)
        /\ UNCHANGED <<pc, data, sensors, current_interval, repeat_count, unsub,
                       selected_routes>>
        /\ UNCHANGED <<xvars, avars, rvars, svars, mvars>>

\* The fetch of a cycle returns a payload: the rest of async_update and
\* schedule_updates run without suspending
PollSucceeds ==
    \E f \in inflight, d \in FetchDurations, p \in Payloads :
        /\ pc = "running"
        /\ can_happen_at(f + d)
        /\ now' = f + d
        /\ inflight' = inflight \ {f}
        /\ data' = p
        /\ schedule_updates("poll_ok", p, reconcile(sensors, p, f + d, selected_routes), f + d)
        /\ UNCHANGED selected_routes
        /\ UNCHANGED <<xvars, avars, rvars, svars, mvars>>

\* The fetch of a cycle raises: async_update logs and returns (lines 71-73),
\* and schedule_updates runs on whatever self.data holds
PollFails ==
    \E f \in inflight, d \in FetchDurations :
        /\ pc = "running"
        /\ can_happen_at(f + d)
        /\ now' = f + d
        /\ inflight' = inflight \ {f}
        /\ schedule_updates("poll_failed", data,
                            async_update_failed(sensors, data, f + d, selected_routes),
                            f + d)
        /\ UNCHANGED <<data, selected_routes>>
        /\ UNCHANGED <<xvars, avars, rvars, svars, mvars>>

\* lines 45-58: the state __init__ leaves
CoordinatorInit ==
    /\ pc = "created"
    /\ now = 0
    /\ data = UnsetData
    /\ sensors = <<RefreshSensor(None)>>
    /\ current_interval = None
    /\ repeat_count = None
    /\ unsub = None
    /\ timers = {}
    /\ inflight = {}
    /\ selected_routes \in RouteChoices
    /\ event = [kind |-> "init", target |-> None, first |-> TRUE,
                 tier |-> NumTiers - 1, repeat |-> 0, slots |-> 0]

ExtractIdle == x_in = <<>> /\ x_out = <<>> /\ x_pc = "idle"
ApiIdle ==
    /\ a_pc = "idle" /\ attempt = 0 /\ a_elapsed = 0 /\ a_waits = <<>>
    /\ a_requests = 0 /\ a_status = None /\ a_result = "" /\ flow_error = ""

RenderIdle == r_in = <<>> /\ r_out = <<>> /\ r_pc = "idle"
SetupIdle == s_pc = "idle" /\ s_index = 1 /\ coordinators = <<>>
TierIdle ==
    /\ m_interval = None /\ m_repeat = None /\ m_arrivals = <<>>
    /\ m_target = None /\ m_slow = 0
    /\ m_start = [tier |-> NumTiers - 1, repeat |-> 0]

Init == CoordinatorInit /\ ExtractIdle /\ ApiIdle /\ RenderIdle /\ SetupIdle /\ TierIdle

Next == AsyncRefresh \/ TimerFires \/ PollSucceeds \/ PollFails

Spec == Init /\ [][Next]_vars

----------------------------------------------------------------------------
(* compute_arrivals applied to drawn inputs *)

\* The longest payload drawn.
MaxEntries == 2

\* The instant of the call, in seconds.
ExtractNow == 60

\* Arrival times around that instant, in milliseconds.  Predicted: absent,
\* the API's 0 for "no prediction", past, the instant itself, future.
\* Scheduled: absent, 0, past, future; not whole seconds apart from the
\* predicted ones.
PredictedTimes == {None, 0, 58500, ExtractNow * 1000, 61250}
ScheduledTimes == {None, 0, 59000, 60001, 125000}

DrawnEntries ==
    {Entry(r, p, sc) : r \in {"10", "20"}, p \in PredictedTimes, sc \in ScheduledTimes}

DrawnLists ==
    UNION {[1..n -> DrawnEntries] : n \in 0..MaxEntries}

\* The allow-lists compute_arrivals is given: the ones the config flow
\* stores, and a list of plain route ids.
DrawnRoutes == RouteChoices \cup {<<Str("10")>>}

ExtractInit ==
    /\ x_pc = "drawn"
    /\ x_in \in {[entries |-> e, now |-> ExtractNow, routes |-> r] :
                    e \in DrawnLists, r \in DrawnRoutes}
    /\ x_out = <<>>

\* compute_arrivals(after) with self.data holding the drawn payload
Extract ==
    /\ x_pc = "drawn"
    /\ x_out' = compute_arrivals(DictData(x_in.entries, <<>>), x_in.now, x_in.routes)
    /\ x_pc' = "done"
    /\ UNCHANGED x_in
    /\ UNCHANGED <<cvars, avars, rvars, svars, mvars>>

CoordinatorIdle ==
    /\ pc = "idle" /\ now = 0 /\ data = UnsetData /\ sensors = <<>>
    /\ current_interval = None /\ repeat_count = None /\ unsub = None
    /\ timers = {} /\ inflight = {} /\ selected_routes = <<>>
    /\ event = [kind |-> "idle", target |-> None, first |-> TRUE,
                tier |-> NumTiers - 1, repeat |-> 0, slots |-> 0]

InitExtract == ExtractInit /\ CoordinatorIdle /\ ApiIdle /\ RenderIdle /\ SetupIdle /\ TierIdle

NextExtract == Extract

SpecExtract == InitExtract /\ [][NextExtract]_vars

----------------------------------------------------------------------------
(* The gateway: OneBusAwayApiClient._api_wrapper (api.py 53-101) and the     *)
(* setup flow that reports its errors (config_flow.py 40-55)                *)

\* api.py 8-17: the client's error classes
ApiClientError == "OneBusAwayApiClientError"
CommunicationError == "OneBusAwayApiClientCommunicationError"
AuthenticationError == "OneBusAwayApiClientAuthenticationError"

\* isinstance(e, cls) among the client's error classes
is_instance(e, cls) ==
    \/ e = cls
    \/ (cls = ApiClientError /\ e \in {CommunicationError, AuthenticationError})

\* lines 90-101: the error _api_wrapper raises for an exception raised inside
\* its try block.  The client's own errors are neither a TimeoutError nor an
\* aiohttp.ClientError, so they reach the last clause.
except_chain(exc) ==
    IF exc = "TimeoutError" THEN CommunicationError
    ELSE IF exc \in {"ClientError", "ClientResponseError", "ContentTypeError", "gaierror"}
    THEN CommunicationError
    ELSE ApiClientError

\* backoff_factor * attempt
power_linear(b, e) == b * e

\* backoff_factor ** attempt
RECURSIVE power(_, _)
power(b, e) == IF e = 0 THEN 1 ELSE b * power(b, e - 1)

\* The HTTP statuses the server answers with, and how long it takes, in
\* seconds (an answer within the same second, or after two).
Statuses == {200, 401, 403, 404, 429, 500}
Latencies == {l \in {0, 2} : l < request_timeout}

\* the exception leaves _api_wrapper translated by the except clauses
api_raises(exc) ==
    /\ a_pc' = "raised"
    /\ a_result' = except_chain(exc)

\* async_get_data / async_get_stop_data (lines 36-50) enter the loop
ApiCall ==
    /\ a_pc = "idle"
    /\ a_pc' = "request"
    /\ attempt' = 0
    /\ a_elapsed' = 0
    /\ UNCHANGED <<a_waits, a_requests, a_status, a_result, flow_error>>
    /\ UNCHANGED <<cvars, xvars, rvars, svars, mvars>>

\* lines 67-88: the request is answered before the timeout
RequestAnswered ==
    \E st \in Statuses, l \in Latencies :
        /\ a_pc = "request"
        /\ a_requests' = a_requests + 1
        /\ a_status' = st
        /\ a_elapsed' = l
        /\ IF st = 429
           THEN IF attempt < max_retries - 1
                THEN a_pc' = "sleep" /\ UNCHANGED a_result
                ELSE api_raises(CommunicationError)
           ELSE IF st \in {401, 403}
           THEN api_raises(AuthenticationError)
           ELSE IF st >= 400
           THEN api_raises("ClientResponseError")
           ELSE a_pc' = "json" /\ UNCHANGED a_result
        /\ UNCHANGED <<attempt, a_waits, flow_error>>
        /\ UNCHANGED <<cvars, xvars, rvars, svars, mvars>>

\* line 66: no answer within the timeout
RequestTimesOut ==
    /\ a_pc = "request"
    /\ a_requests' = a_requests + 1
    /\ a_elapsed' = request_timeout
    /\ a_status' = None
    /\ api_raises("TimeoutError")
    /\ UNCHANGED <<attempt, a_waits, flow_error>>
    /\ UNCHANGED <<cvars, xvars, rvars, svars, mvars>>

\* line 67: the request fails in the network
RequestFails ==
    \E exc \in {"ClientError", "gaierror"} :
        /\ a_pc = "request"
        /\ a_requests' = a_requests + 1
        /\ a_status' = None
        /\ api_raises(exc)
        /\ UNCHANGED <<attempt, a_elapsed, a_waits, flow_error>>
        /\ UNCHANGED <<cvars, xvars, rvars, svars, mvars>>

\* lines 75-78: asyncio.sleep(backoff_factor ** attempt) inside the timeout
\* block of the attempt, then the next attempt
SleepEnds ==
    /\ a_pc = "sleep"
    /\ a_elapsed + power(backoff_factor, attempt) < request_timeout
    /\ a_waits' = Append(a_waits, power(backoff_factor, attempt))
    /\ attempt' = attempt + 1
    /\ a_elapsed' = 0
    /\ a_pc' = "request"
    /\ UNCHANGED <<a_requests, a_status, a_result, flow_error>>
    /\ UNCHANGED <<cvars, xvars, rvars, svars, mvars>>

\* lines 66 and 77: the timeout ends the sleep
SleepTimesOut ==
    /\ a_pc = "sleep"
    /\ a_elapsed + power(backoff_factor, attempt) >= request_timeout
    /\ a_elapsed' = request_timeout
    /\ api_raises("TimeoutError")
    /\ UNCHANGED <<attempt, a_waits, a_requests, a_status, flow_error>>
    /\ UNCHANGED <<cvars, xvars, rvars, svars, mvars>>

\* line 88: return await response.json()
JsonReturned ==
    /\ a_pc = "json"
    /\ a_pc' = "returned"
    /\ a_result' = "payload"
    /\ UNCHANGED <<attempt, a_elapsed, a_waits, a_requests, a_status, flow_error>>
    /\ UNCHANGED <<cvars, xvars, rvars, svars, mvars>>

\* line 88: the body is no JSON
JsonFails ==
    \E exc \in {"ContentTypeError", "ValueError"} :
        /\ a_pc = "json"
        /\ api_raises(exc)
        /\ UNCHANGED <<attempt, a_elapsed, a_waits, a_requests, a_status, flow_error>>
        /\ UNCHANGED <<cvars, xvars, rvars, svars, mvars>>

\* config_flow.py 47-55: the first except clause the raised error matches
flow_error_for(e) ==
    IF is_instance(e, AuthenticationError) THEN "auth"
    ELSE IF is_instance(e, CommunicationError) THEN "connection"
    ELSE "unknown"

\* config_flow.py 40-66: async_step_user after _test_url
FlowStepUser ==
    /\ a_pc \in {"raised", "returned"}
    /\ a_pc' = "handled"
    /\ flow_error' = IF a_pc = "raised" THEN flow_error_for(a_result) ELSE "none"
    /\ UNCHANGED <<attempt, a_elapsed, a_waits, a_requests, a_status, a_result>>
    /\ UNCHANGED <<cvars, xvars, rvars, svars, mvars>>

InitApi == ApiIdle /\ CoordinatorIdle /\ ExtractIdle /\ RenderIdle /\ SetupIdle /\ TierIdle

NextApi ==
    \/ ApiCall
    \/ RequestAnswered
    \/ RequestTimesOut
    \/ RequestFails
    \/ SleepEnds
    \/ SleepTimesOut
    \/ JsonReturned
    \/ JsonFails
    \/ FlowStepUser

SpecApi == InitApi /\ [][NextApi]_vars

\* The event loop resumes every coroutine that can go on, and a request or
\* a sleep inside async_timeout.timeout(10) ends by an answer, a failure or
\* the timeout: a step that is possible is taken.
SpecApiFair == SpecApi /\ WF_vars(NextApi)

----------------------------------------------------------------------------
(* The situation sensor's markdown: extra_state_attributes (sensor.py        *)
(* 376-419).  A string is the sequence of its characters.                    *)

CR == "\r"
LF == "\n"
\* The whitespace str.strip() removes, among the characters drawn.
Whitespace == {" ", CR, LF}

\* situation.get(key, {}).get("value", "") or ""
value_of(field) == IF field = <<>> THEN <<>> ELSE field[1]

\* str.replace("\r\n", "\n")
RECURSIVE replace_crlf(_)
replace_crlf(t) ==
    IF t = <<>> THEN <<>>
    ELSE IF Len(t) >= 2 /\ t[1] = CR /\ t[2] = LF
    THEN <<LF>> \o replace_crlf(SubSeq(t, 3, Len(t)))
    ELSE <<t[1]>> \o replace_crlf(Tail(t))

\* str.replace("\r", "\n")
replace_cr(t) == [i \in 1..Len(t) |-> IF t[i] = CR THEN LF ELSE t[i]]

\* str.strip(chars): drop the leading and the trailing characters in chars
RECURSIVE lstrip(_, _)
lstrip(t, chars) ==
    IF t # <<>> /\ t[1] \in chars THEN lstrip(Tail(t), chars) ELSE t
RECURSIVE rstrip(_, _)
rstrip(t, chars) ==
    IF t # <<>> /\ t[Len(t)] \in chars THEN rstrip(SubSeq(t, 1, Len(t) - 1), chars) ELSE t
strip(t, chars) == rstrip(lstrip(t, chars), chars)

\* str.split("\n"): the pieces between the line feeds, "" included
RECURSIVE split_lines(_, _)
split_lines(t, piece) ==
    IF t = <<>> THEN <<piece>>
    ELSE IF t[1] = LF THEN <<piece>> \o split_lines(Tail(t), <<>>)
    ELSE split_lines(Tail(t), Append(piece, t[1]))

\* lines 376-379: re.sub(r"[\r\n]+", " ", text).strip()
RECURSIVE sub_line_breaks(_)
sub_line_breaks(t) ==
    IF t = <<>> THEN <<>>
    ELSE IF t[1] \in {CR, LF}
    THEN <<" ">> \o sub_line_breaks(lstrip(t, {CR, LF}))
    ELSE <<t[1]>> \o sub_line_breaks(Tail(t))
sanitize_text(t) == strip(sub_line_breaks(t), Whitespace)

\* A summary line written for every situation, its summary empty or not.
summary_lines_unguarded(summary, url) ==
    IF url # <<>>
    THEN << <<"*", "*", "[">> \o summary \o <<"]", "(">> \o url \o <<")", "*", "*">> >>
    ELSE << <<"*", "*">> \o summary \o <<"*", "*">> >>

\* lines 393-395: the lines the summary adds
summary_lines(summary, url) ==
    IF summary = <<>> THEN <<>>
    ELSE IF url # <<>>
    THEN << <<"*", "*", "[">> \o summary \o <<"]", "(">> \o url \o <<")", "*", "*">> >>
    ELSE << <<"*", "*">> \o summary \o <<"*", "*">> >>

\* lines 399-400: the description's lines that are not blank
raw_lines_of(raw_description) ==
    LET normalized == strip(replace_cr(replace_crlf(raw_description)), {LF})
        not_blank(ln) == strip(ln, Whitespace) # <<>>
    IN SelectSeq(split_lines(normalized, <<>>), not_blank)

\* lines 408-412: the bullets of the lines after the first
RECURSIVE bullet_lines(_)
bullet_lines(lines) ==
    IF lines = <<>> THEN <<>>
    ELSE LET safe_line == strip(sanitize_text(Head(lines)), Whitespace)
         IN (IF safe_line # <<>> THEN << <<"-", " ">> \o safe_line >> ELSE <<>>)
            \o bullet_lines(Tail(lines))

\* lines 398-412: the lines the description adds
description_lines(raw_description) ==
    LET raw_lines == raw_lines_of(raw_description)
    IN IF raw_lines = <<>> THEN <<>>
       ELSE LET header == strip(sanitize_text(raw_lines[1]), Whitespace)
            IN (IF header # <<>> THEN <<header>> ELSE <<>>)
               \o bullet_lines(Tail(raw_lines))

\* lines 389-391: "\n---\n" before every situation but the first
separator_lines(index) ==
    IF index > 0 THEN << <<LF, "-", "-", "-", LF>> >> ELSE <<>>

\* lines 386-412: the loop over enumerate(self.situations), from `index` on
RECURSIVE markdown_lines(_, _)
markdown_lines(situations, index) ==
    IF index >= Len(situations) THEN <<>>
    ELSE LET situation == situations[index + 1]
         IN separator_lines(index)
            \o summary_lines(value_of(situation.summary), value_of(situation.url))
            \o description_lines(value_of(situation.description))
            \o markdown_lines(situations, index + 1)

\* "\n".join(lines)
RECURSIVE join_lines(_)
join_lines(lines) ==
    IF lines = <<>> THEN <<>>
    ELSE IF Len(lines) = 1 THEN lines[1]
    ELSE lines[1] \o <<LF>> \o join_lines(Tail(lines))

\* lines 381-419: the lines, and attributes["markdown_content"] as <<>> when
\* the key is not set and <<string>> when it is
extra_state_attributes(situations) ==
    LET lines == markdown_lines(situations, 0)
    IN [lines |-> lines,
        markdown_content |-> IF lines # <<>> THEN <<join_lines(lines)>> ELSE <<>>]

\* The situations drawn: up to MaxSituations of them, with a missing, an
\* empty or a one-letter summary, with or without a url, and a description
\* that is missing, empty, blank, one line, two lines, or three lines with
\* mixed line ends, spaces around them and an empty line between them.
MaxSituations == 2
Texts(t) == {<<>>} \cup {<<x>> : x \in t}
DrawnDescriptions ==
    {<<>>,
     <<" ", LF, " ">>,
     <<"a">>,
     <<"a", LF, "b">>,
     <<" ", CR, LF, "a", " ", CR, CR, " ", "b", LF, "c", CR>>}
DrawnSituations ==
    {Situation(su, u, de) : su \in Texts({<<>>, <<"S">>}), u \in Texts({<<"u">>}),
                            de \in Texts(DrawnDescriptions)}
DrawnSituationLists ==
    UNION {[1..n -> DrawnSituations] : n \in 0..MaxSituations}

RenderInit ==
    /\ r_pc = "drawn"
    /\ r_in \in DrawnSituationLists
    /\ r_out = <<>>

\* the property is read with self.situations holding the drawn list
Render ==
    /\ r_pc = "drawn"
    /\ r_out' = extra_state_attributes(r_in)
    /\ r_pc' = "done"
    /\ UNCHANGED r_in
    /\ UNCHANGED <<cvars, xvars, avars, svars, mvars>>

InitRender == RenderInit /\ CoordinatorIdle /\ ExtractIdle /\ ApiIdle /\ SetupIdle /\ TierIdle

NextRender == Render

SpecRender == InitRender /\ [][NextRender]_vars

----------------------------------------------------------------------------
(* async_setup_entry (sensor.py 18-39): one coordinator per stop, created    *)
(* and refreshed one after the other, each then polling on its own timer.    *)
(* A coordinator is kept as far as that goes: whether it exists, awaits a    *)
(* fetch, has a timer armed or has raised; its self.data; how many cycles    *)
(* it has ended and how many of its fetches have raised.                     *)

\* The stops of the entry, and the cycles followed per stop.
NumStops == 3
MaxPolls == 2

Coordinator(state, d, polls, failures) ==
    [state |-> state, data |-> d, polls |-> polls, failures |-> failures]

\* line 19: stops; none has a coordinator before the loop
SetupInit ==
    /\ s_pc = "loop"
    /\ s_index = 1
    /\ coordinators = [i \in 1..NumStops |-> Coordinator("absent", UnsetData, 0, 0)]

\* lines 25-34: the loop creates the coordinator of the next stop and awaits
\* its async_refresh, which suspends in the fetch
SetupCreates ==
    /\ s_pc = "loop"
    /\ s_index <= NumStops
    /\ coordinators' = [coordinators EXCEPT ![s_index] =
                            Coordinator("fetching", UnsetData, 0, 0)]
    /\ s_pc' = "refresh"
    /\ UNCHANGED s_index
    /\ UNCHANGED <<cvars, xvars, avars, rvars, mvars>>

\* lines 36-39: the loop is over
SetupFinishes ==
    /\ s_pc = "loop"
    /\ s_index > NumStops
    /\ s_pc' = "done"
    /\ UNCHANGED <<s_index, coordinators>>
    /\ UNCHANGED <<cvars, xvars, avars, rvars, mvars>>

\* the cycle of stop i that setup awaits: its first, at line 34
awaited(i) == s_pc = "refresh" /\ s_index = i /\ coordinators[i].polls = 0

\* lines 66-113 and 171-232 for stop i: the fetch returns, the timer is armed;
\* line 35 when setup awaited the cycle
FetchReturns(i) ==
    /\ coordinators[i].state = "fetching"
    /\ coordinators' = [coordinators EXCEPT ![i] =
            Coordinator("armed", DictData(<<>>, <<>>), @.polls + 1, @.failures)]
    /\ IF awaited(i)
       THEN s_pc' = "loop" /\ s_index' = s_index + 1
       ELSE UNCHANGED <<s_pc, s_index>>
    /\ UNCHANGED <<cvars, xvars, avars, rvars, mvars>>

\* lines 71-73 and 171-232 for stop i: the fetch raises and schedule_updates
\* runs on self.data: it arms the timer, or, self.data never assigned, raises
\* out of the cycle and out of the `await` of line 34
FetchRaises(i) ==
    /\ coordinators[i].state = "fetching"
    /\ IF data_unset(coordinators[i].data)
       THEN /\ coordinators' = [coordinators EXCEPT ![i] =
                    Coordinator("crashed", @.data, @.polls + 1, @.failures + 1)]
            /\ s_pc' = IF awaited(i) THEN "raised" ELSE s_pc
            /\ UNCHANGED s_index
       ELSE /\ coordinators' = [coordinators EXCEPT ![i] =
                    Coordinator("armed", @.data, @.polls + 1, @.failures + 1)]
            /\ UNCHANGED <<s_pc, s_index>>
    /\ UNCHANGED <<cvars, xvars, avars, rvars, mvars>>

\* lines 173-176 for stop i: its timer fires and starts a cycle
StopTimerFires(i) ==
    /\ coordinators[i].state = "armed"
    /\ coordinators[i].polls < MaxPolls
    /\ coordinators' = [coordinators EXCEPT ![i] =
            Coordinator("fetching", @.data, @.polls, @.failures)]
    /\ UNCHANGED <<s_pc, s_index>>
    /\ UNCHANGED <<cvars, xvars, avars, rvars, mvars>>

InitSetup == SetupInit /\ CoordinatorIdle /\ ExtractIdle /\ ApiIdle /\ RenderIdle /\ TierIdle

NextSetup ==
    \/ SetupCreates
    \/ SetupFinishes
    \/ \E i \in 1..NumStops : FetchReturns(i)
    \/ \E i \in 1..NumStops : FetchRaises(i)
    \/ \E i \in 1..NumStops : StopTimerFires(i)

SpecSetup == InitSetup /\ [][NextSetup]_vars

----------------------------------------------------------------------------
(* The tier machine by itself: schedule_updates (sensor.py 178-218) called    *)
(* again and again, each time with whatever next arrival the data gives.     *)

\* The longest row of calls with target 4 that is followed.
MaxCycles == 8

\* Seconds until the next arrival, in thousandths: an arrival already past
\* (C6), one due now, and the values at and just over each threshold.
DrawnDelays ==
    {0 - 1500, 0, 1,
     180000, 180001, 360000, 360001, 600000, 600001, 900000, 900001}

\* What compute_arrivals returns, as far as line 179 reads it: nothing, or a
\* first arrival that far from ExtractNow.
DrawnArrivals ==
    {<<>>} \cup {<<[time |-> ExtractNow * 1000 + s]>> : s \in DrawnDelays}

\* __init__ sets neither _current_interval nor _repeat_count
TierInit ==
    /\ m_interval = None
    /\ m_repeat = None
    /\ m_arrivals = <<>>
    /\ m_target = None
    /\ m_slow = 0
    /\ m_start = [tier |-> NumTiers - 1, repeat |-> 0]

\* lines 178-218: one call of schedule_updates at ExtractNow
ScheduleUpdates ==
    \E arrivals \in DrawnArrivals :
        LET target == target_index(seconds_until_arrival(arrivals, ExtractNow))
            tier_index == tier_index_of(get_current_interval(m_interval))
            next == step_tier(get_current_interval(m_interval),
                              get_repeat_count(m_repeat), target)
        IN /\ (target = NumTiers - 1 => m_slow < MaxCycles)
           /\ m_arrivals' = arrivals
           /\ m_target' = target
           /\ m_interval' = next.interval
           /\ m_repeat' = next.repeat
           /\ m_slow' = IF target = NumTiers - 1 THEN m_slow + 1 ELSE 0
           /\ m_start' = IF target = NumTiers - 1 /\ m_slow > 0 THEN m_start
                          ELSE [tier |-> tier_index,
                                repeat |-> get_repeat_count(m_repeat)]
           /\ UNCHANGED <<cvars, xvars, avars, rvars, svars>>

InitTier ==
    TierInit /\ CoordinatorIdle /\ ExtractIdle /\ ApiIdle /\ RenderIdle /\ SetupIdle

NextTier == ScheduleUpdates

SpecTier == InitTier /\ [][NextTier]_vars

----------------------------------------------------------------------------
(* Properties of the tier machine, checked under Spec *)

\* The tier index the coordinator is at.
TierIndex == tier_index_of(get_current_interval(current_interval))

\* The arrival sensors, in the order self.sensors holds them.
ArrivalSlots == existing_arrival_sensors(sensors)

\* The last step ran schedule_updates to its end.
ScheduleRan == event.target # None

\* C1: whenever the target tier index is lower than the current tier index,
\* one call of schedule_updates leaves the coordinator exactly at the target
\* tier, with repeatCount 0.
C1_AccelerationJumpsToTarget ==
    (ScheduleRan /\ event.target < event.tier) =>
        /\ TierIndex = event.target
        /\ current_interval = polling_tiers[event.target + 1]
        /\ repeat_count = 0

\* C1, as the code has it: whenever the target tier index is lower than the
\* current tier index, one call of schedule_updates lowers the current tier
\* by exactly one index and resets repeatCount to 0.
C1_AccelerationOneStep ==
    (ScheduleRan /\ event.target < event.tier) =>
        /\ TierIndex = event.tier - 1
        /\ current_interval = polling_tiers[event.tier]
        /\ repeat_count = 0

\* C1's case: from tier 3 a target of tier 0 has led to tier 2.
C1_Witness ==
    /\ ScheduleRan
    /\ event.tier = 3
    /\ event.target = 0
    /\ current_interval = 90

\* C2: whenever the target tier index is higher than the current tier index,
\* one call of schedule_updates either stays at the tier and adds 1 to
\* repeatCount (repeatCount below the tier's repeat limit) or moves up by
\* exactly one tier and resets repeatCount to 0; never more than one tier.
C2_BackoffOneStep ==
    (ScheduleRan /\ event.target > event.tier) =>
        IF event.repeat < repeat_limits[event.tier + 1]
        THEN /\ current_interval = polling_tiers[event.tier + 1]
             /\ repeat_count = event.repeat + 1
        ELSE /\ current_interval = polling_tiers[event.tier + 2]
             /\ repeat_count = 0

\* C2's case: from tier 2 (repeat limit 0) a target of tier 4 has led to tier 3.
C2_Witness ==
    /\ ScheduleRan
    /\ event.tier = 2
    /\ event.target = 4
    /\ current_interval = 180

\* C3: no poll cycle of the stop starts while an earlier one still awaits its
\* fetch: at most one cycle is in progress.
C3_NoOverlappingCycles == Cardinality(inflight) <= 1

\* C4: after a poll cycle whose fetch raised, the coordinator has not raised
\* out of the cycle and a timer is armed.
C4_FailedCycleRearms ==
    event.kind = "poll_failed" => (pc = "running" /\ timers # {})

\* The situation sensors and the refresh sensors among self.sensors.
SituationSlots == SelectSeq(sensors, is_situation)
RefreshSlots == SelectSeq(sensors, LAMBDA s : s.kind = "refresh")

\* C14: after the first poll cycle of a new coordinator, when the fetched
\* snapshot has no arrivals and no situations, there is no arrival sensor,
\* the situation sensor counts 0 situations, and the refresh sensor's
\* forecast is now + 300 s, which is when the timer is due.
C14_EmptyFirstCycle ==
    (/\ event.kind = "poll_ok"
     /\ event.first
     /\ data.arrivalsAndDepartures = <<>>
     /\ data.situations = <<>>)
    => /\ ArrivalSlots = <<>>
       /\ Len(SituationSlots) = 1
       /\ Len(SituationSlots[1].situations) = 0
       /\ Len(RefreshSlots) = 1
       /\ RefreshSlots[1].next_refresh = now + 300
       /\ \A tm \in timers : tm.due = now + 300

\* C14's case: the first fetch has returned a dict without arrivals or
\* situations, 5 s after the coordinator was created.
C14_Witness ==
    /\ event.kind = "poll_ok"
    /\ event.first
    /\ data = DictData(<<>>, <<>>)
    /\ now = 5
    /\ timers # {}

\* C16: at most one timer is registered at any time, and it is the one
\* self._unsub would cancel: every call of schedule_updates has cancelled
\* the timer armed before it.
C16_OneLiveTimer ==
    /\ Cardinality(timers) <= 1
    /\ \A tm \in timers : tm.id = unsub

\* C16's case: a cycle has re-armed the timer while a later cycle, started
\* by the timer it replaced, still awaits its fetch.
C16_Witness ==
    /\ event.kind = "poll_ok"
    /\ ~event.first
    /\ inflight # {}
    /\ Cardinality(timers) = 1

\* C17: after a poll cycle whose fetch raised, a timer is armed with the
\* interval of the tier the coordinator was at before the cycle, and
\* the tier and repeatCount are what they were before it.
C17_FailedCycleKeepsTier ==
    event.kind = "poll_failed" =>
        /\ pc = "running"
        /\ \E tm \in timers : tm.interval = polling_tiers[event.tier + 1]
        /\ TierIndex = event.tier
        /\ get_repeat_count(repeat_count) = event.repeat

\* C20: whenever the target tier index equals the current tier index, one
\* call of schedule_updates leaves the tier and repeatCount as they were.
C20_EqualLeavesUnchanged ==
    (ScheduleRan /\ event.target = event.tier) =>
        /\ TierIndex = event.tier
        /\ current_interval = polling_tiers[event.tier + 1]
        /\ repeat_count = event.repeat

\* C20's case: at tier 0 with repeatCount 1 a target of tier 0 has left
\* repeatCount at 1.
C20_Witness ==
    /\ ScheduleRan
    /\ event.tier = 0
    /\ event.target = 0
    /\ event.repeat = 1
    /\ repeat_count = 1

\* C21: a poll cycle whose fetch raised leaves every arrival sensor and the
\* situation sensor as they were before it: none created, updated or
\* cleared.
C21_FailedCycleLeavesSlots ==
    [][event'.kind = "poll_failed" =>
          /\ ArrivalSlots' = ArrivalSlots
          /\ SituationSlots' = SituationSlots
          /\ Len(sensors') = Len(sensors)]_vars

\* C21's case: a fetch has raised while the sensors held an arrival that
\* has passed by now and a situation, and they still hold them.
C21_Witness ==
    /\ event.kind = "poll_failed"
    /\ pc = "running"
    /\ Len(ArrivalSlots) >= 1
    /\ ArrivalSlots[1].arrival_info # NoArrival
    /\ ArrivalSlots[1].arrival_info.time < now * 1000
    /\ Len(SituationSlots) = 1
    /\ SituationSlots[1].situations # <<>>

\* C23: a coordinator has at most one situation sensor and exactly one
\* refresh sensor; the situation sensor exists from the first successful
\* poll on, and every successful poll leaves the one situation sensor, at
\* the place in self.sensors it had, holding the situations of its payload.
C23_OneSituationSlot ==
    /\ [](pc # "idle" =>
            /\ Len(SituationSlots) <= 1
            /\ Len(RefreshSlots) = 1
            /\ (Len(SituationSlots) = 1 <=> ~data_unset(data)))
    /\ [][event'.kind = "poll_ok" =>
            /\ Len(SituationSlots') = 1
            /\ SituationSlots'[1].situations = data'.situations
            /\ \A p \in 1..Len(sensors) :
                    is_situation(sensors[p]) <=> is_situation(sensors'[p])
            /\ (Len(SituationSlots) = 1 => Len(sensors') - Len(ArrivalSlots')
                                             = Len(sensors) - Len(ArrivalSlots))]_vars

\* C23's case: a later successful poll has replaced the situations the
\* sensor held by an empty list, in the one sensor.
C23_Witness ==
    /\ event.kind = "poll_ok"
    /\ ~event.first
    /\ Len(SituationSlots) = 1
    /\ SituationSlots[1].situations = <<>>
    /\ Len(ArrivalSlots) >= 1

----------------------------------------------------------------------------
(* Properties of the arrival extractor, checked under SpecExtract *)

\* The entry passes the route filter with a (non-absent) predicted time at
\* or before now and a scheduled time after now.
past_predicted_future_scheduled(d, current, routes) ==
    /\ ~route_rejected(d, routes)
    /\ d.predictedArrivalTime # None
    /\ d.predictedArrivalTime <= current
    /\ d.scheduledArrivalTime # None
    /\ d.scheduledArrivalTime > current

Count(seq, Test(_)) == Cardinality({i \in 1..Len(seq) : Test(seq[i])})

\* C5: every entry that passes the route filter and has a predicted time at or
\* before now and a scheduled time after now yields exactly one record, of
\* kind Scheduled, at the scheduled time / 1000.  Stated for the payloads
\* made of such entries only: as many records as entries, all Scheduled,
\* and each scheduled time held by as many records as entries.
C5_PastPredictedYieldsScheduled ==
    (/\ x_pc = "done"
     /\ \A i \in 1..Len(x_in.entries) :
            past_predicted_future_scheduled(x_in.entries[i], x_in.now * 1000, x_in.routes))
    => /\ Len(x_out) = Len(x_in.entries)
       /\ \A j \in 1..Len(x_out) : x_out[j].type = "Scheduled"
       /\ \A i \in 1..Len(x_in.entries) :
            LET at == x_in.entries[i].scheduledArrivalTime
                SameRecord(r) == r.time = at
                SameEntry(d) == d.scheduledArrivalTime = at
            IN Count(x_out, SameRecord) = Count(x_in.entries, SameEntry)

\* C6: every record compute_arrivals(now) returns has a time strictly after
\* now (so the seconds until the next arrival are never negative).
C6_RecordsAfterNow ==
    x_pc = "done" =>
        \A j \in 1..Len(x_out) : x_out[j].time > x_in.now * 1000

\* The entry passes the route filter and has both times, the predicted one
\* after now.
both_present_predicted_future(d, current, routes) ==
    /\ ~route_rejected(d, routes)
    /\ d.predictedArrivalTime # None
    /\ d.predictedArrivalTime > current
    /\ d.scheduledArrivalTime # None

\* predicted - scheduled of an entry, in milliseconds
deviation_ms(d) == d.predictedArrivalTime - d.scheduledArrivalTime

\* ms rounded down to a multiple of 1000
floor_ms(ms) == ms - (ms % 1000)

\* C11: every entry with both a predicted and a scheduled time and the
\* predicted time after now yields a record of kind Predicted whose schedule
\* deviation is (predicted - scheduled) / 1000 exactly.  Stated for the
\* payloads made of such entries only: as many records as entries, all
\* Predicted, each with 1000 times its deviation equal to predicted -
\* scheduled of as many entries as there are such records.
C11_DeviationExact ==
    (/\ x_pc = "done"
     /\ \A i \in 1..Len(x_in.entries) :
            both_present_predicted_future(x_in.entries[i], x_in.now * 1000, x_in.routes))
    => /\ Len(x_out) = Len(x_in.entries)
       /\ \A j \in 1..Len(x_out) : x_out[j].type = "Predicted"
       /\ \A i \in 1..Len(x_in.entries) :
            LET at == x_in.entries[i].predictedArrivalTime
                ms == deviation_ms(x_in.entries[i])
                SameRecord(r) == /\ r.time = at
                                 /\ r.schedule_deviation # None
                                 /\ r.schedule_deviation * 1000 = ms
                SameEntry(d) == d.predictedArrivalTime = at /\ deviation_ms(d) = ms
            IN Count(x_out, SameRecord) = Count(x_in.entries, SameEntry)

\* C11, as the code has it: every entry with both a predicted and a
\* scheduled time, the scheduled one not 0 and the predicted one after now,
\* yields a record of kind Predicted whose schedule deviation is
\* (predicted - scheduled) / 1000 rounded down to a whole number of seconds.
\* Stated for the payloads made of such entries only.
C11_DeviationFloored ==
    (/\ x_pc = "done"
     /\ \A i \in 1..Len(x_in.entries) :
            /\ both_present_predicted_future(x_in.entries[i], x_in.now * 1000, x_in.routes)
            /\ x_in.entries[i].scheduledArrivalTime # 0)
    => /\ Len(x_out) = Len(x_in.entries)
       /\ \A j \in 1..Len(x_out) : x_out[j].type = "Predicted"
       /\ \A i \in 1..Len(x_in.entries) :
            LET at == x_in.entries[i].predictedArrivalTime
                ms == floor_ms(deviation_ms(x_in.entries[i]))
                SameRecord(r) == /\ r.time = at
                                 /\ r.schedule_deviation # None
                                 /\ r.schedule_deviation * 1000 = ms
                SameEntry(d) == d.predictedArrivalTime = at /\ floor_ms(deviation_ms(d)) = ms
            IN Count(x_out, SameRecord) = Count(x_in.entries, SameEntry)

\* C11's case: predicted 61.250 s and scheduled 125.000 s, 63.75 s early,
\* have given a deviation of -64.
C11_Witness ==
    /\ x_pc = "done"
    /\ Len(x_in.entries) = 1
    /\ x_in.entries[1].predictedArrivalTime = 61250
    /\ x_in.entries[1].scheduledArrivalTime = 125000
    /\ Len(x_out) = 1
    /\ x_out[1].schedule_deviation = 0 - 64

\* The route id an element of the allow-list stands for.
route_key(e) == IF "id" \in DOMAIN e THEN e.id ELSE e.str

\* The entry's route is one of the allow-list's.
route_allowed(d, routes) ==
    \E i \in 1..Len(routes) : route_key(routes[i]) = d.routeId

\* The entry has a time after now.
has_future_time(d, current) ==
    \/ (d.predictedArrivalTime # None /\ d.predictedArrivalTime > current)
    \/ (d.scheduledArrivalTime # None /\ d.scheduledArrivalTime > current)

\* C12: with a non-empty allow-list the records are those of the entries
\* whose routeId is in the list and that have a time after now, one each, and
\* no entry of another route gives one; with an empty allow-list no entry is
\* dropped for its route.
C12_RouteFilter ==
    x_pc = "done" =>
        LET Kept(d) == /\ (x_in.routes # <<>> => route_allowed(d, x_in.routes))
                       /\ has_future_time(d, x_in.now * 1000)
        IN /\ Len(x_out) = Count(x_in.entries, Kept)
           /\ \A j \in 1..Len(x_out) :
                \E i \in 1..Len(x_in.entries) :
                    /\ Kept(x_in.entries[i])
                    /\ x_out[j].routeShortName = x_in.entries[i].routeShortName

\* The permutations of 1..n
Orderings(n) ==
    {f \in [1..n -> 1..n] : \A i, j \in 1..n : f[i] = f[j] => i = j}

\* The same elements, each as many times, in two sequences.
SameRecords(a, b) ==
    /\ Len(a) = Len(b)
    /\ \A i \in 1..Len(a) :
            LET Same(r) == r = a[i]
            IN Count(a, Same) = Count(b, Same)

\* C13: the output of compute_arrivals is in ascending order of time, holds
\* the same records whatever the order of the entries in the payload, and
\* sorting it once more leaves it as it is.
C13_SortedWhateverTheOrder ==
    x_pc = "done" =>
        /\ \A j \in 1..(Len(x_out) - 1) : x_out[j].time <= x_out[j + 1].time
        /\ \A f \in Orderings(Len(x_in.entries)) :
                LET shuffled == [i \in 1..Len(x_in.entries) |-> x_in.entries[f[i]]]
                    other == compute_arrivals(DictData(shuffled, <<>>), x_in.now, x_in.routes)
                IN /\ SameRecords(x_out, other)
                   /\ \A j \in 1..(Len(other) - 1) : other[j].time <= other[j + 1].time
        /\ sorted_by_time(x_out) = x_out

\* C13's case: two entries, the later one first in the payload, have come
\* out in the other order.
C13_Witness ==
    /\ x_pc = "done"
    /\ Len(x_in.entries) = 2
    /\ Len(x_out) = 2
    /\ x_in.entries[1].predictedArrivalTime = 61250
    /\ x_in.entries[2].predictedArrivalTime = None
    /\ x_in.entries[2].scheduledArrivalTime = 60001
    /\ x_out[1].time = 60001
    /\ x_out[2].time = 61250

----------------------------------------------------------------------------
(* Properties of the sensor reconciliation, checked under Spec *)

\* C7: one successful poll with n arrival slots before it and k new
\* departures leaves max(n, k) slots, slot i holding departure i for i < k
\* and every slot from k up to n cleared, none removed.
C7_SlotReconciliation ==
    event.kind = "poll_ok" =>
        LET new == compute_arrivals(data, now, selected_routes)
            n == event.slots
            k == Len(new)
        IN /\ Len(ArrivalSlots) = Max(n, k)
           /\ \A i \in 1..k : ArrivalSlots[i].arrival_info = new[i]
           /\ \A i \in (k + 1)..n : ArrivalSlots[i].arrival_info = NoArrival

\* C7's case: 3 slots before the poll and 1 departure in it: slot 0 updated,
\* slots 1 and 2 cleared, 3 slots left.
C7_Witness ==
    /\ event.kind = "poll_ok"
    /\ event.slots = 3
    /\ Len(compute_arrivals(data, now, selected_routes)) = 1
    /\ Len(ArrivalSlots) = 3
    /\ ArrivalSlots[1].arrival_info # NoArrival
    /\ ArrivalSlots[2].arrival_info = NoArrival
    /\ ArrivalSlots[3].arrival_info = NoArrival

\* C8: over every step the number of arrival slots does not decrease, and
\* the slot at position i carries index i.
C8_SlotsOnlyGrow ==
    [][/\ Len(ArrivalSlots') >= Len(ArrivalSlots)
       /\ \A i \in 1..Len(ArrivalSlots') : ArrivalSlots'[i].index = i - 1]_vars

\* C8's case: slots created by one poll, cleared by a later one, and kept
\* through a failed cycle.
C8_Witness ==
    /\ event.kind = "poll_failed"
    /\ Len(ArrivalSlots) >= 2
    /\ ArrivalSlots[1].arrival_info = NoArrival
    /\ ArrivalSlots[2].index = 1

----------------------------------------------------------------------------
(* Properties of the gateway, checked under SpecApi *)

\* C9: a call answered with HTTP 401 or 403 ends by raising the
\* authentication error, which the setup flow reports as "auth".
C9_AuthErrorOn401 ==
    (a_pc \in {"raised", "handled"} /\ a_status \in {401, 403}) =>
        /\ a_result = AuthenticationError
        /\ (a_pc = "handled" => flow_error = "auth")

\* C10: a call whose every attempt is answered with HTTP 429 ends after the
\* last allowed attempt by raising the communication error.
C10_CommunicationErrorOnExhaustion ==
    (/\ a_pc \in {"raised", "handled"}
     /\ a_requests = max_retries
     /\ a_status = 429)
    => a_result = CommunicationError

----------------------------------------------------------------------------
(* Properties of the tier machine by itself, checked under SpecTier *)

\* The tier index and the repeat count the machine is at.
MachineTier == tier_index_of(get_current_interval(m_interval))
MachineRepeat == get_repeat_count(m_repeat)

\* C22: the target tier index is 0 when the seconds until the next arrival
\* are <= 180, 1 when <= 360, 2 when <= 600, 3 when <= 900 and 4 otherwise,
\* 4 too when no arrival remains; and of two calls in a row the one with the
\* later next arrival has no lower target.
C22_TargetThresholds ==
    /\ [](m_target # None =>
            IF m_arrivals = <<>> THEN m_target = 4
            ELSE LET ms == m_arrivals[1].time - ExtractNow * 1000
                 IN /\ (ms <= 180 * 1000 => m_target = 0)
                    /\ (ms > 180 * 1000 /\ ms <= 360 * 1000 => m_target = 1)
                    /\ (ms > 360 * 1000 /\ ms <= 600 * 1000 => m_target = 2)
                    /\ (ms > 600 * 1000 /\ ms <= 900 * 1000 => m_target = 3)
                    /\ (ms > 900 * 1000 => m_target = 4))
    /\ [][(/\ m_target # None
            /\ m_arrivals # <<>>
            /\ (m_arrivals' # <<>> => m_arrivals'[1].time >= m_arrivals[1].time))
           => m_target' >= m_target]_vars

\* C22's case: a next arrival exactly 180 s away has given target 0, and the
\* first call has stepped from tier 4 to tier 3 for it.
C22_Witness ==
    /\ m_target = 0
    /\ m_arrivals = <<[time |-> ExtractNow * 1000 + 180000]>>
    /\ m_interval = 180

\* C24: after any sequence of calls the interval is one of 30, 60, 90, 180,
\* 300, the tier index is within 0..4, and the repeat count is between 0 and
\* the repeat limit of the tier, the limits being 2, 1, 0, 0, 0.
C24_TierStateInRange ==
    /\ (m_interval # None => m_interval \in {30, 60, 90, 180, 300})
    /\ MachineTier \in 0..4
    /\ MachineRepeat >= 0
    /\ MachineRepeat <= <<2, 1, 0, 0, 0>>[MachineTier + 1]

\* C24's case: tier 0 repeated as often as its limit allows.
C24_Witness ==
    /\ m_interval = 30
    /\ m_repeat = 2
    /\ m_target = 4

\* C25: after 7 calls in a row with target 4 the machine is at tier 4,
\* whatever tier and repeat count the row started from, and a call with
\* target 4 at tier 4 leaves it there; until then every such call moves the
\* machine on, by a repeat or by a tier.
C25_BackoffReachesSlowest ==
    /\ [](m_slow >= 7 => (MachineTier = 4 /\ m_interval = 300))
    /\ [][m_slow' = m_slow + 1 =>
            IF MachineTier = 4
            THEN m_interval' = 300
            ELSE \/ (m_interval' = m_interval /\ m_repeat' = MachineRepeat + 1)
                 \/ (tier_index_of(m_interval') = MachineTier + 1 /\ m_repeat' = 0)]_vars

\* C25's case: from tier 0 with repeat count 0, the seventh call in a row
\* with target 4 has reached tier 4.
C25_Witness ==
    /\ m_slow = 7
    /\ m_start = [tier |-> 0, repeat |-> 0]
    /\ m_interval = 300

----------------------------------------------------------------------------
(* Properties of the situation rendering, checked under SpecRender *)

\* The list without its i-th situation.
without(situations, i) ==
    SubSeq(situations, 1, i - 1) \o SubSeq(situations, i + 1, Len(situations))

\* C15: a situation whose summary is empty or missing adds nothing to the
\* rendered markdown, whatever its description: the rendered string is the
\* one of the list with that situation removed.
C15_EmptySummaryAddsNothing ==
    r_pc = "done" =>
        \A i \in 1..Len(r_in) :
            value_of(r_in[i].summary) = <<>> =>
                r_out.markdown_content =
                    extra_state_attributes(without(r_in, i)).markdown_content

\* The positions of a text where a line that is not blank shows its first
\* character: no earlier visible character without a line break in between.
line_starts(t) ==
    {p \in 1..Len(t) :
        /\ t[p] \notin Whitespace
        /\ \A q \in 1..(p - 1) :
                t[q] \notin Whitespace => \E b \in (q + 1)..(p - 1) : t[b] \in {CR, LF}}

\* A line of the form **...**
is_summary_line(l) == Len(l) >= 2 /\ l[1] = "*" /\ l[2] = "*"

\* C15, as the code has it: a situation whose summary is empty or missing
\* adds no summary line, but it still adds its separator when it is not the
\* first situation and one line for every line of its description that is
\* not blank.  The lines rendered are one separator per situation after the
\* first, one summary line per situation with a non-empty summary and one
\* line per non-blank description line, and there is markdown content
\* exactly when there is such a line.
C15_OnlySummaryLineLeftOut ==
    r_pc = "done" =>
        LET has_summary(situation) == value_of(situation.summary) # <<>>
            separators == IF r_in = <<>> THEN 0 ELSE Len(r_in) - 1
            starts == UNION {{<<i, p>> : p \in line_starts(value_of(r_in[i].description))} :
                                i \in 1..Len(r_in)}
        IN /\ Count(r_out.lines, is_summary_line) = Count(r_in, has_summary)
           /\ Len(r_out.lines) =
                separators + Count(r_in, has_summary) + Cardinality(starts)
           /\ (r_out.markdown_content = <<>>) <=> (r_out.lines = <<>>)
           /\ (r_out.lines = <<>>) <=>
                (separators + Count(r_in, has_summary) + Cardinality(starts) = 0)

\* C15's case: after a situation "S", one without a summary and with the
\* description "a" has added its separator and its description.
C15_Witness ==
    /\ r_pc = "done"
    /\ Len(r_in) = 2
    /\ r_in[1] = Situation(<<<<"S">>>>, <<>>, <<>>)
    /\ r_in[2].summary = <<>>
    /\ r_in[2].description = <<<<"a">>>>
    /\ r_out.markdown_content =
            << <<"*", "*", "S", "*", "*", LF, LF, "-", "-", "-", LF, LF, "a">> >>

----------------------------------------------------------------------------
(* Properties of the setup of several stops, checked under SpecSetup *)

\* C18: a failed fetch of one stop, its first during setup included, does not
\* keep another stop from having its coordinator created, polled and
\* re-armed: once async_setup_entry has ended, every stop none of whose own
\* fetches raised has a coordinator that awaits a fetch or has a timer armed.
C18_StopsIndependent ==
    s_pc \in {"done", "raised"} =>
        \A i \in 1..NumStops :
            coordinators[i].failures = 0 =>
                coordinators[i].state \in {"fetching", "armed"}

\* The waits between the attempts the claim names.
ClaimedWaits == <<1, 3, 9>>

\* C19: a call of _api_wrapper ends, by returning a payload or by raising
\* one of the client's three errors, having sent at most 4 requests; a
\* further attempt is only made after an answer of HTTP 429, and attempt
\* a = 0, 1, 2 is followed by a wait of 3^a = 1, 3, 9 seconds before it.
C19_TerminatesWithinFourAttempts ==
    /\ [](/\ a_requests <= 4
          /\ a_requests <= attempt + 1
          /\ Len(a_waits) = attempt
          /\ \A i \in 1..Len(a_waits) : a_waits[i] = ClaimedWaits[i]
          /\ (a_pc \in {"returned", "raised", "handled"} =>
                a_result \in {"payload", ApiClientError, CommunicationError,
                              AuthenticationError}))
    /\ [][attempt' > attempt =>
            /\ a_status = 429
            /\ attempt' = attempt + 1
            /\ a_waits' = Append(a_waits, ClaimedWaits[attempt + 1])]_vars
    /\ (a_pc = "request") ~> (a_pc \in {"returned", "raised", "handled"})

\* C19's case: three answers of 429 and the waits of 1, 3 and 9 s, then a
\* fourth request whose payload was returned.
C19_Witness ==
    /\ a_pc = "returned"
    /\ a_requests = 4
    /\ a_waits = <<1, 3, 9>>
    /\ a_result = "payload"

====
